---- MODULE Spec2Model ----
(***************************************************************************)
(* Removal from an r-tree (rstar, src/algorithm/removal.rs):               *)
(*   - remove / remove_all, both built on remove_recursive;                *)
(*   - DrainIterator: new, next, pop_node and Drop.                        *)
(* Elements are points on a line, envelopes are closed intervals.          *)
(***************************************************************************)
EXTENDS Integers, Sequences, FiniteSets, TLC

\* ------------------------------------------------------------------ bounds
MaxElem == 2
MaxLeaves == 3
MaxHeight == 3
MaxOps == 2

Elems == 1..MaxElem

\* --------------------------------------------------------------- envelopes
\* The envelope of no children: an interval that holds no point.
EmptyEnvelope == [lo |-> MaxElem + 1, hi |-> 0]

PointEnvelope(t) == [lo |-> t, hi |-> t]

Min2(a, b) == IF a <= b THEN a ELSE b
Max2(a, b) == IF a >= b THEN a ELSE b

MergeEnvelope(a, b) == [lo |-> Min2(a.lo, b.lo), hi |-> Max2(a.hi, b.hi)]

Intersects(a, b) == a.lo <= b.hi /\ b.lo <= a.hi

\* ------------------------------------------------------------------- nodes
\* RTreeNode::Leaf(t)
Leaf(t) == [tag |-> "Leaf", t |-> t]

\* The envelope a node reports to its parent: a leaf's own envelope, an
\* interior node's cached envelope.
NodeEnvelope(n) == IF n.tag = "Leaf" THEN PointEnvelope(n.t) ELSE n.envelope

RECURSIVE EnvelopeFrom(_, _, _)
EnvelopeFrom(children, k, acc) ==
    IF k > Len(children) THEN acc
    ELSE EnvelopeFrom(children, k + 1, MergeEnvelope(acc, NodeEnvelope(children[k])))

\* crate::node::envelope_for_children: the union of the children's envelopes
\* as the children report them (cached envelopes are not recomputed).
EnvelopeForChildren(children) == EnvelopeFrom(children, 1, EmptyEnvelope)

\* RTreeNode::Parent(ParentNode { children, envelope })
ParentNode(children, envelope) ==
    [tag |-> "Parent", children |-> children, envelope |-> envelope]

\* A freshly built interior node: its cache agrees with its children.
NewParent(children) == ParentNode(children, EnvelopeForChildren(children))

\* RTree::new_with_params(): an empty root and a count of 0.
NewRTree == [root |-> NewParent(<<>>), size |-> 0]

\* ------------------------------------------------------- sequence helpers
\* Vec::remove(i) with a 0-based index: order of the rest is kept.
VecRemove(s, i) == SubSeq(s, 1, i) \o SubSeq(s, i + 2, Len(s))

\* Vec::swap(i, j) with 0-based indices.
VecSwap(s, i, j) ==
    [k \in 1..Len(s) |-> IF k = i + 1 THEN s[j + 1]
                         ELSE IF k = j + 1 THEN s[i + 1] ELSE s[k]]

\* Vec::swap_remove(i) with a 0-based index: the last element takes the place
\* of the removed one.
VecSwapRemove(s, i) == SubSeq(VecSwap(s, i, Len(s) - 1), 1, Len(s) - 1)

\* ------------------------------------------------------ selection function
\* SelectionFunction::should_unpack_parent: a region test on the envelope, or
\* (all = TRUE) the answer of SelectAllFunc.
ShouldUnpackParent(f, envelope) == f.all \/ Intersects(envelope, f.region)

\* SelectionFunction::should_unpack_leaf
ShouldUnpackLeaf(f, t) == t \in f.leaves

\* The regions a selection function may test envelopes against.
Regions == {r \in [lo : Elems, hi : Elems] : r.lo <= r.hi}

SelectionFunctions ==
    [all : {FALSE}, region : Regions, leaves : SUBSET Elems]
        \cup [all : {TRUE}, region : {EmptyEnvelope}, leaves : SUBSET Elems]

\* ----------------------------------------------------------- initial trees
\* Trees as insertion and bulk loading build them: every leaf at the same
\* depth, no interior node but the root without children, every cached
\* envelope the union of the children's envelopes.
RECURSIVE NodesOf(_, _), Forests(_, _)
\* The interior nodes of height h over exactly n >= 1 leaves.
NodesOf(h, n) ==
    IF h = 1
    THEN {NewParent([k \in 1..n |-> Leaf(f[k])]) : f \in [1..n -> Elems]}
    ELSE {NewParent(cs) : cs \in Forests(h - 1, n)}
\* The sequences of interior nodes of height h over exactly n leaves.
Forests(h, n) ==
    IF n = 0 THEN {<<>>}
    ELSE UNION {{<<t>> \o f : t \in NodesOf(h, k), f \in Forests(h, n - k)} : k \in 1..n}

InitRoots ==
    {NewParent(<<>>)} \cup UNION {NodesOf(h, n) : h \in 1..MaxHeight, n \in 1..MaxLeaves}

\* ------------------------------------------------------ reading the tree
RECURSIVE LeavesOf(_), LeavesOfSeq(_, _)
\* The elements of the leaves under a node, in depth-first order.
LeavesOf(n) == IF n.tag = "Leaf" THEN <<n.t>> ELSE LeavesOfSeq(n.children, 1)
LeavesOfSeq(children, k) ==
    IF k > Len(children) THEN <<>>
    ELSE LeavesOf(children[k]) \o LeavesOfSeq(children, k + 1)

\* How often an element occurs in a sequence.
Count(s, t) == Cardinality({k \in 1..Len(s) : s[k] = t})

\* Two sequences hold the same elements the same number of times.
SameBag(s1, s2) == Len(s1) = Len(s2) /\ \A t \in Elems : Count(s1, t) = Count(s2, t)

RECURSIVE InteriorNodes(_), InteriorNodesSeq(_, _)
\* Every interior node under (and including) a node.
InteriorNodes(n) ==
    IF n.tag = "Leaf" THEN {} ELSE {n} \cup InteriorNodesSeq(n.children, 1)
InteriorNodesSeq(children, k) ==
    IF k > Len(children) THEN {}
    ELSE InteriorNodes(children[k]) \cup InteriorNodesSeq(children, k + 1)

\* No interior node other than the root (the argument) has zero children.
NoEmptyInterior(r) ==
    \A n \in InteriorNodesSeq(r.children, 1) : Len(n.children) > 0

\* Every cached envelope is the union of the current children's envelopes.
EnvelopesConsistent(r) ==
    \A n \in InteriorNodes(r) : n.envelope = EnvelopeForChildren(n.children)

RECURSIVE NodeAt(_, _), WithNodeAt(_, _, _)
\* The node a path of 0-based child indices leads to.
NodeAt(n, path) ==
    IF path = <<>> THEN n ELSE NodeAt(n.children[Head(path) + 1], Tail(path))
\* The tree with the node at a path replaced.
WithNodeAt(n, path, new) ==
    IF path = <<>> THEN new
    ELSE [n EXCEPT !.children[Head(path) + 1] = WithNodeAt(@, Tail(path), new)]

\* ------------------------------------------------------------------- state
VARIABLES
    rtree,              \* RTree { root, size }
    removal_function,   \* the selection function of the run's calls
    pc,                 \* "idle", "remove" (in remove_recursive), "drain"
                        \* (a DrainIterator is alive), "next" (inside next),
                        \* "drop" (inside the destructor's loop)
    op,                 \* the operation running or last run
    remove_only_first,  \* remove_recursive's mode
    call_stack,         \* remove_recursive's activations, innermost last
    returned,           \* what the last call returned (an Option is a
                        \* sequence of length at most 1)
    node_stack,         \* DrainIterator.node_stack
    original_size,      \* DrainIterator.original_size
    yielded,            \* the elements the live drain has yielded, in order
    tree0,              \* the root when the current operation began
    prev,               \* the previous operation: what it was, where it
                        \* began, what it gave, the root it left
    ops                 \* operations begun

vars == <<rtree, removal_function, pc, op, remove_only_first, call_stack,
          returned, node_stack, original_size, yielded, tree0, prev, ops>>

drainVars == <<node_stack, original_size, yielded>>
removeVars == <<remove_only_first, call_stack>>

NoPrev ==
    [op |-> "none", tree0 |-> NewParent(<<>>), gave |-> <<>>,
     root |-> NewParent(<<>>)]

Init ==
    /\ \E r \in InitRoots : rtree = [root |-> r, size |-> Len(LeavesOf(r))]
    /\ removal_function \in SelectionFunctions
    /\ pc = "idle"
    /\ op = "none"
    /\ remove_only_first = FALSE
    /\ call_stack = <<>>
    /\ returned = <<>>
    /\ node_stack = <<>>
    /\ original_size = 0
    /\ yielded = <<>>
    /\ tree0 = rtree.root
    /\ prev = NoPrev
    /\ ops = 0

\* What the operation that just ended leaves for the next one to look back on.
Ended ==
    [op |-> op, tree0 |-> tree0,
     gave |-> IF op = "drain" THEN yielded ELSE returned,
     root |-> rtree.root]

\* ------------------------------------------------- remove_recursive (36-94)
Top(s) == s[Len(s)]
Rest(s) == SubSeq(s, 1, Len(s) - 1)

\* EnterFrame without the test of the envelope: the loop is always entered.
EnterFrameAlways(root, path) ==
    [path |-> path, i |-> 0, result |-> <<>>, at |-> "loop"]

\* A new activation on the node at a path: result is empty, and the loop is
\* entered only if the selection function accepts the node's envelope.
EnterFrame(root, path) ==
    [path |-> path, i |-> 0, result |-> <<>>,
     at |-> IF ShouldUnpackParent(removal_function, NodeAt(root, path).envelope)
            THEN "loop" ELSE "exit"]

\* The activation has left its while loop.
LoopDone(root, f) == f.at = "exit" \/ f.i >= Len(NodeAt(root, f.path).children)

\* ScanLeaf without the break of first-only mode.
ScanLeafNoBreak(node, f, first) ==
    LET t == node.children[f.i + 1].t IN
    IF ShouldUnpackLeaf(removal_function, t)
    THEN [node |-> [node EXCEPT !.children = VecRemove(@, f.i)],
          frame |-> [f EXCEPT !.result = Append(@, t)]]
    ELSE [node |-> node, frame |-> [f EXCEPT !.i = @ + 1]]


\* ScanLeaf that records an accepted leaf and leaves it in the node.
ScanLeafKeeps(node, f, first) ==
    LET t == node.children[f.i + 1].t IN
    IF ShouldUnpackLeaf(removal_function, t)
    THEN [node |-> node,
          frame |-> [f EXCEPT !.result = Append(@, t), !.i = @ + 1,
                              !.at = IF first THEN "exit" ELSE "loop"]]
    ELSE [node |-> node, frame |-> [f EXCEPT !.i = @ + 1]]

\* Lines 70-85: one iteration of the loop on a leaf child.
ScanLeaf(node, f, first) ==
    LET t == node.children[f.i + 1].t IN
    IF ShouldUnpackLeaf(removal_function, t)
    THEN [node |-> [node EXCEPT !.children = VecRemove(@, f.i)],
          frame |-> [f EXCEPT !.result = Append(@, t),
                              !.at = IF first THEN "exit" ELSE "loop"]]
    ELSE [node |-> node, frame |-> [f EXCEPT !.i = @ + 1]]

\* UpdateEnvelope that leaves the cached envelope as it is.
UpdateEnvelopeNever(node, result) == node

\* Lines 89-92: the envelope is recomputed if anything was removed.
UpdateEnvelope(node, result) ==
    IF result # <<>>
    THEN [node EXCEPT !.envelope = EnvelopeForChildren(node.children)]
    ELSE node

\* PruneChild that keeps an empty child.
PruneChildNever(children, i) == children

\* Lines 60-62: a child that has become empty is removed from its parent.
PruneChild(children, i) ==
    IF children[i + 1].children = <<>> THEN VecRemove(children, i) ELSE children


\* AfterChild that puts the child's result in front of the caller's.
AfterChildPrepends(node, f, childResult, first) ==
    LET result == childResult \o f.result IN
    IF result # <<>>
    THEN [node |-> [node EXCEPT !.children = PruneChild(@, f.i)],
          frame |-> [f EXCEPT !.result = result,
                              !.at = IF first THEN "exit" ELSE "loop"]]
    ELSE [node |-> node, frame |-> [f EXCEPT !.result = result, !.i = @ + 1]]

\* Lines 53-68: the caller takes the child's result; the test is on the
\* caller's whole result so far.
AfterChild(node, f, childResult, first) ==
    LET result == f.result \o childResult IN
    IF result # <<>>
    THEN [node |-> [node EXCEPT !.children = PruneChild(@, f.i)],
          frame |-> [f EXCEPT !.result = result,
                              !.at = IF first THEN "exit" ELSE "loop"]]
    ELSE [node |-> node, frame |-> [f EXCEPT !.result = result, !.i = @ + 1]]

\* Vec::pop: the last element, if any.
VecPop(v) == IF v = <<>> THEN <<>> ELSE <<v[Len(v)]>>

\* remove (18-25) and remove_all (27-34) call remove_recursive on the root.
RemoveCall(first) ==
    /\ pc = "idle"
    /\ ops < MaxOps
    /\ pc' = "remove"
    /\ op' = IF first THEN "remove" ELSE "remove_all"
    /\ remove_only_first' = first
    /\ call_stack' = <<EnterFrame(rtree.root, <<>>)>>
    /\ tree0' = rtree.root
    /\ prev' = Ended
    /\ ops' = ops + 1
    /\ returned' = <<>>
    /\ UNCHANGED <<rtree, removal_function, drainVars>>

Remove == RemoveCall(TRUE)
RemoveAll == RemoveCall(FALSE)

\* The loop meets a leaf child.
RR_Leaf ==
    /\ pc = "remove"
    /\ LET f == Top(call_stack)
           node == NodeAt(rtree.root, f.path)
       IN /\ ~LoopDone(rtree.root, f)
          /\ node.children[f.i + 1].tag = "Leaf"
          /\ LET r == ScanLeaf(node, f, remove_only_first) IN
             /\ rtree' = [rtree EXCEPT !.root = WithNodeAt(@, f.path, r.node)]
             /\ call_stack' = Append(Rest(call_stack), r.frame)
    /\ UNCHANGED <<removal_function, pc, op, remove_only_first, returned,
                   drainVars, tree0, prev, ops>>

\* The loop meets an interior child and calls remove_recursive on it.
RR_Descend ==
    /\ pc = "remove"
    /\ LET f == Top(call_stack)
           node == NodeAt(rtree.root, f.path)
       IN /\ ~LoopDone(rtree.root, f)
          /\ node.children[f.i + 1].tag = "Parent"
          /\ call_stack' = Append(call_stack, EnterFrame(rtree.root, Append(f.path, f.i)))
    /\ UNCHANGED <<rtree, removal_function, pc, op, remove_only_first, returned,
                   drainVars, tree0, prev, ops>>

\* An inner activation returns to its caller.
RR_Return ==
    /\ pc = "remove"
    /\ Len(call_stack) > 1
    /\ LET f == Top(call_stack)
           caller == Top(Rest(call_stack))
           child == UpdateEnvelope(NodeAt(rtree.root, f.path), f.result)
           root1 == WithNodeAt(rtree.root, f.path, child)
           r == AfterChild(NodeAt(root1, caller.path), caller, f.result, remove_only_first)
       IN /\ LoopDone(rtree.root, f)
          /\ rtree' = [rtree EXCEPT !.root = WithNodeAt(root1, caller.path, r.node)]
          /\ call_stack' = Append(Rest(Rest(call_stack)), r.frame)
    /\ UNCHANGED <<removal_function, pc, op, remove_only_first, returned,
                   drainVars, tree0, prev, ops>>

\* The outermost activation returns: remove pops the result, remove_all
\* hands it over whole.
RR_Finish ==
    /\ pc = "remove"
    /\ Len(call_stack) = 1
    /\ LET f == Top(call_stack) IN
       /\ LoopDone(rtree.root, f)
       /\ rtree' = [rtree EXCEPT !.root = UpdateEnvelope(@, f.result)]
       /\ returned' = IF remove_only_first THEN VecPop(f.result) ELSE f.result
    /\ call_stack' = <<>>
    /\ pc' = "idle"
    /\ UNCHANGED <<removal_function, op, remove_only_first, drainVars, tree0, prev, ops>>

NextRemoval == Remove \/ RemoveAll \/ RR_Leaf \/ RR_Descend \/ RR_Return \/ RR_Finish

SpecRemoval == Init /\ [][NextRemoval]_vars

\* remove_recursive is a synchronous call: once begun it keeps running.
FairSpecRemoval == SpecRemoval /\ WF_vars(RR_Leaf \/ RR_Descend \/ RR_Return \/ RR_Finish)

\* ------------------------------------------------- DrainIterator (96-253)
\* A frame of node_stack: (ParentNode, usize, usize).
Frame(node, idx, removed) == [node |-> node, idx |-> idx, removed |-> removed]


\* PopEnvelope that caches the envelope of no children at all.
PopEnvelopeEmpty(node, num_removed) ==
    IF num_removed > 0
    THEN [node EXCEPT !.envelope = EmptyEnvelope]
    ELSE node

\* Lines 135-137: the popped node's envelope is recomputed if anything was
\* removed under it.
PopEnvelope(node, num_removed) ==
    IF num_removed > 0
    THEN [node EXCEPT !.envelope = EnvelopeForChildren(node.children)]
    ELSE node

\* AddRemoved that loses the popped node's count.
AddRemovedLost(parent_removed, num_removed) == parent_removed


\* AddRemoved that counts the popped node's removals twice.
AddRemovedTwice(parent_removed, num_removed) ==
    parent_removed + num_removed + num_removed

\* Line 147: the popped node's count goes to its parent.
AddRemoved(parent_removed, num_removed) == parent_removed + num_removed

\* Reattach that returns, in the destructor, before the node is pushed back.
ReattachNotInDrop(parent, node, increment_idx) ==
    IF node.children = <<>> \/ ~increment_idx THEN parent
    ELSE LET pushed == [parent EXCEPT !.node.children = Append(@, node)] IN
         [pushed EXCEPT
            !.node.children = VecSwap(@, pushed.idx, Len(@) - 1),
            !.idx = @ + 1]

\* Reattach that puts an empty node back as well.
ReattachAlways(parent, node, increment_idx) ==
    LET pushed == [parent EXCEPT !.node.children = Append(@, node)] IN
    IF ~increment_idx THEN pushed
    ELSE [pushed EXCEPT
            !.node.children = VecSwap(@, pushed.idx, Len(@) - 1),
            !.idx = @ + 1]


\* Reattach that moves the scan index on without the swap.
ReattachNoSwap(parent, node, increment_idx) ==
    IF node.children = <<>> THEN parent
    ELSE LET pushed == [parent EXCEPT !.node.children = Append(@, node)] IN
         IF ~increment_idx THEN pushed
         ELSE [pushed EXCEPT !.idx = @ + 1]


\* Reattach that swaps the node into the scan position and leaves the scan
\* index where it is.
ReattachNoAdvance(parent, node, increment_idx) ==
    IF node.children = <<>> THEN parent
    ELSE LET pushed == [parent EXCEPT !.node.children = Append(@, node)] IN
         IF ~increment_idx THEN pushed
         ELSE [pushed EXCEPT
                 !.node.children = VecSwap(@, pushed.idx, Len(@) - 1)]

\* Lines 150-166: the popped node goes back to its parent unless it is
\* empty; during iteration it is swapped into the scan position and the
\* scan index moves past it.
Reattach(parent, node, increment_idx) ==
    IF node.children = <<>> THEN parent
    ELSE LET pushed == [parent EXCEPT !.node.children = Append(@, node)] IN
         IF ~increment_idx THEN pushed
         ELSE [pushed EXCEPT
                 !.node.children = VecSwap(@, pushed.idx, Len(@) - 1),
                 !.idx = @ + 1]

\* pop_node (126-169): the stack after the call, and what is returned:
\* Some((node, num_removed)) when the popped frame was the last one.
PopNode(stack, increment_idx) ==
    LET top == Top(stack)
        node == PopEnvelope(top.node, top.removed)
        rest == Rest(stack)
    IN IF rest = <<>>
       THEN [stack |-> rest, some |-> TRUE, node |-> node, removed |-> top.removed]
       ELSE LET parent == [Top(rest) EXCEPT !.removed = AddRemoved(@, top.removed)] IN
            [stack |-> Append(Rest(rest), Reattach(parent, node, increment_idx)),
             some |-> FALSE, node |-> node, removed |-> top.removed]

RECURSIVE ScanFrom(_, _)
\* Lines 187-214: the scan index after the while loop has passed the leaves
\* the selection function rejects: the position of the first interior child
\* or accepted leaf at or after idx, or the number of children.
ScanFrom(children, idx) ==
    IF idx >= Len(children) THEN idx
    ELSE IF children[idx + 1].tag = "Parent" THEN idx
    ELSE IF ShouldUnpackLeaf(removal_function, children[idx + 1].t) THEN idx
    ELSE ScanFrom(children, idx + 1)


\* Scans without the test of the envelope.
ScansAlways(f) == TRUE

\* Line 186: the frame's children are scanned at all.
Scans(f) == f.idx > 0 \/ ShouldUnpackParent(removal_function, f.node.envelope)

\* Where the scan of the top frame stops.
ScanStop(f) == IF Scans(f) THEN ScanFrom(f.node.children, f.idx) ELSE f.idx

\* The scan of the top frame stops on a child (rather than runs out).
StopsOnChild(f) == Scans(f) /\ ScanStop(f) < Len(f.node.children)

\* Install that writes back the count recorded at construction.
InstallKeepsSize(node, total_removed) ==
    [root |-> node, size |-> original_size]

\* Lines 220-221 and 247-248: the root and the count go back to the tree.
Install(node, total_removed) ==
    [root |-> node, size |-> original_size - total_removed]


\* DrainIterator::new that takes a copy of the root and leaves the tree as
\* it is.
DrainNewKeepsTree ==
    /\ pc = "idle"
    /\ ops < MaxOps
    /\ node_stack' = <<Frame(rtree.root, 0, 0)>>
    /\ original_size' = rtree.size
    /\ rtree' = rtree
    /\ pc' = "drain"
    /\ op' = "drain"
    /\ yielded' = <<>>
    /\ returned' = <<>>
    /\ tree0' = rtree.root
    /\ prev' = Ended
    /\ ops' = ops + 1
    /\ UNCHANGED <<removal_function, removeVars>>

\* DrainIterator::new (114-124): the tree is replaced by a new one and its
\* root becomes the only frame.
DrainNew ==
    /\ pc = "idle"
    /\ ops < MaxOps
    /\ node_stack' = <<Frame(rtree.root, 0, 0)>>
    /\ original_size' = rtree.size
    /\ rtree' = NewRTree
    /\ pc' = "drain"
    /\ op' = "drain"
    /\ yielded' = <<>>
    /\ returned' = <<>>
    /\ tree0' = rtree.root
    /\ prev' = Ended
    /\ ops' = ops + 1
    /\ UNCHANGED <<removal_function, removeVars>>

\* next (180-184) on an empty stack: None.
NextExhausted ==
    /\ pc \in {"drain", "next"}
    /\ node_stack = <<>>
    /\ pc' = "drain"
    /\ returned' = <<>>
    /\ UNCHANGED <<rtree, removal_function, op, removeVars, drainVars, tree0, prev, ops>>

\* next (189-198): the scan stops on an interior child, which is detached
\* and pushed; next calls itself.
NextDescend ==
    /\ pc \in {"drain", "next"}
    /\ node_stack # <<>>
    /\ LET f == Top(node_stack)
           k == ScanStop(f)
       IN /\ StopsOnChild(f)
          /\ f.node.children[k + 1].tag = "Parent"
          /\ node_stack' =
                Rest(node_stack) \o
                <<[f EXCEPT !.idx = k, !.node.children = VecSwapRemove(@, k)],
                  Frame(f.node.children[k + 1], 0, 0)>>
    /\ pc' = "next"
    /\ UNCHANGED <<rtree, removal_function, op, removeVars, returned,
                   original_size, yielded, tree0, prev, ops>>

\* next (200-210): the scan stops on a leaf the selection function accepts,
\* which is detached, counted and returned.
NextYield ==
    /\ pc \in {"drain", "next"}
    /\ node_stack # <<>>
    /\ LET f == Top(node_stack)
           k == ScanStop(f)
       IN /\ StopsOnChild(f)
          /\ f.node.children[k + 1].tag = "Leaf"
          /\ node_stack' =
                Append(Rest(node_stack),
                       [f EXCEPT !.idx = k, !.removed = @ + 1,
                                 !.node.children = VecSwapRemove(@, k)])
          /\ returned' = <<f.node.children[k + 1].t>>
          /\ yielded' = Append(yielded, f.node.children[k + 1].t)
    /\ pc' = "drain"
    /\ UNCHANGED <<rtree, removal_function, op, removeVars, original_size,
                   tree0, prev, ops>>

\* The stack as pop_node finds it when the scan of the top frame has run out.
ScannedOut(stack) ==
    Append(Rest(stack), [Top(stack) EXCEPT !.idx = ScanStop(Top(stack))])

\* next (217, 225-226): the top frame is done and is not the last one:
\* pop_node(true) gives None and next calls itself.
NextBacktrack ==
    /\ pc \in {"drain", "next"}
    /\ Len(node_stack) > 1
    /\ ~StopsOnChild(Top(node_stack))
    /\ node_stack' = PopNode(ScannedOut(node_stack), TRUE).stack
    /\ pc' = "next"
    /\ UNCHANGED <<rtree, removal_function, op, removeVars, returned,
                   original_size, yielded, tree0, prev, ops>>

\* next (217-223): the last frame is done: its node is the new root, the
\* count is set, None is returned.
NextFinish ==
    /\ pc \in {"drain", "next"}
    /\ Len(node_stack) = 1
    /\ ~StopsOnChild(Top(node_stack))
    /\ LET r == PopNode(ScannedOut(node_stack), TRUE) IN
       /\ node_stack' = r.stack
       /\ rtree' = Install(r.node, r.removed)
    /\ returned' = <<>>
    /\ pc' = "drain"
    /\ UNCHANGED <<removal_function, op, removeVars, original_size, yielded,
                   tree0, prev, ops>>


\* Drop without the early return: with an empty stack the count recorded at
\* construction is written back.
DropWritesAgain ==
    /\ pc = "drain"
    /\ pc' = IF node_stack = <<>> THEN "idle" ELSE "drop"
    /\ rtree' = IF node_stack = <<>> THEN [rtree EXCEPT !.size = original_size]
                ELSE rtree
    /\ UNCHANGED <<removal_function, op, removeVars, returned, drainVars,
                   tree0, prev, ops>>

\* Drop (236-243), between two calls of next or after the last one: with an
\* empty stack there is nothing to do, otherwise the loop is entered.
Drop ==
    /\ pc = "drain"
    /\ pc' = IF node_stack = <<>> THEN "idle" ELSE "drop"
    /\ UNCHANGED <<rtree, removal_function, op, removeVars, returned, drainVars,
                   tree0, prev, ops>>

\* One turn of Drop's loop (244-251): pop_node(false), and when it gives the
\* root, the root and the count are written back and the loop ends.
DropPop ==
    /\ pc = "drop"
    /\ LET r == PopNode(node_stack, FALSE) IN
       /\ node_stack' = r.stack
       /\ IF r.some
          THEN rtree' = Install(r.node, r.removed) /\ pc' = "idle"
          ELSE UNCHANGED rtree /\ pc' = "drop"
    /\ UNCHANGED <<removal_function, op, removeVars, returned, original_size,
                   yielded, tree0, prev, ops>>

NextDrain ==
    DrainNew \/ NextExhausted \/ NextDescend \/ NextYield \/ NextBacktrack
        \/ NextFinish \/ Drop \/ DropPop

SpecDrain == Init /\ [][NextDrain]_vars

\* next is a synchronous call, and the consumer of a drain that is neither
\* exhausted nor dropped pulls again.
FairSpecDrain ==
    SpecDrain /\ WF_vars(NextDescend \/ NextYield \/ NextBacktrack \/ NextFinish)

\* A run of drains or a run of removals (the count is kept by the caller of
\* remove and remove_all, so the two are not mixed in one run).
Next ==
    \/ op \notin {"remove", "remove_all"} /\ NextDrain
    \/ op # "drain" /\ NextRemoval

Spec == Init /\ [][Next]_vars

\* remove_all (27-34) called on a copy of the tree that a drain, now
\* exhausted, began with: the two are run on the same tree with the same
\* selection function, the drain first.
CompareRemoveAll ==
    /\ op = "drain"
    /\ pc = "drain"
    /\ node_stack = <<>>
    /\ ops < MaxOps
    /\ rtree' = [root |-> tree0, size |-> original_size]
    /\ pc' = "remove"
    /\ op' = "remove_all"
    /\ remove_only_first' = FALSE
    /\ call_stack' = <<EnterFrame(tree0, <<>>)>>
    /\ prev' = Ended
    /\ ops' = ops + 1
    /\ returned' = <<>>
    /\ UNCHANGED <<removal_function, drainVars, tree0>>

\* A drain pulled to exhaustion, then remove_all on the same tree.
NextCompare ==
    DrainNew \/ NextDescend \/ NextYield \/ NextBacktrack \/ NextFinish
        \/ CompareRemoveAll \/ RR_Leaf \/ RR_Descend \/ RR_Return \/ RR_Finish

SpecCompare == Init /\ [][NextCompare]_vars

\* The consumer keeps pulling, remove_all is called once the drain is
\* exhausted, and remove_recursive, a synchronous call, keeps running.
FairSpecCompare ==
    /\ SpecCompare
    /\ WF_vars(NextDescend \/ NextYield \/ NextBacktrack \/ NextFinish)
    /\ WF_vars(CompareRemoveAll)
    /\ WF_vars(RR_Leaf \/ RR_Descend \/ RR_Return \/ RR_Finish)

\* ----------------------------------------------------- what is to be shown
\* The leaves of a subtree, in depth-first order, that the selection
\* function reaches and accepts: the leaf is accepted and so is the cached
\* envelope of every interior node from the subtree's root down to it.
RECURSIVE MatchFlags(_), MatchFlagsSeq(_, _)
MatchFlags(n) ==
    IF n.tag = "Leaf" THEN <<ShouldUnpackLeaf(removal_function, n.t)>>
    ELSE IF ShouldUnpackParent(removal_function, n.envelope)
         THEN MatchFlagsSeq(n.children, 1)
         ELSE [k \in 1..Len(LeavesOf(n)) |-> FALSE]
MatchFlagsSeq(children, k) ==
    IF k > Len(children) THEN <<>>
    ELSE MatchFlags(children[k]) \o MatchFlagsSeq(children, k + 1)

\* The positions of a sequence of flags that are set.
Set(flags) == {k \in 1..Len(flags) : flags[k]}

\* The first set position, 0 if there is none.
FirstSet(flags) ==
    IF Set(flags) = {} THEN 0
    ELSE CHOOSE k \in Set(flags) : \A j \in Set(flags) : k <= j

RECURSIVE Keep(_, _, _)
\* The elements of s at the positions from k on that are in `at`, in order.
Keep(s, at, k) ==
    IF k > Len(s) THEN <<>>
    ELSE (IF k \in at THEN <<s[k]>> ELSE <<>>) \o Keep(s, at, k + 1)

\* s without the elements at the positions in `at`.
Without(s, at) == Keep(s, (1..Len(s)) \ at, 1)

RECURSIVE NumInterior(_), NumInteriorSeq(_, _)
\* The number of interior nodes under (and including) a node.
NumInterior(n) ==
    IF n.tag = "Leaf" THEN 0 ELSE 1 + NumInteriorSeq(n.children, 1)
NumInteriorSeq(children, k) ==
    IF k > Len(children) THEN 0
    ELSE NumInterior(children[k]) + NumInteriorSeq(children, k + 1)

RECURSIVE KeptNodes(_, _, _), KeptNodesSeq(_, _, _, _)
\* The interior nodes under n none of whose leaves is at a position in
\* `gone`; off leaves precede n in depth-first order.
KeptNodes(n, off, gone) ==
    IF n.tag = "Leaf" THEN {}
    ELSE (IF (off + 1 .. off + Len(LeavesOf(n))) \cap gone = {} THEN {n} ELSE {})
            \cup KeptNodesSeq(n.children, 1, off, gone)
KeptNodesSeq(children, k, off, gone) ==
    IF k > Len(children) THEN {}
    ELSE KeptNodes(children[k], off, gone)
            \cup KeptNodesSeq(children, k + 1, off + Len(LeavesOf(children[k])), gone)

\* A drain has been finalized: next has signalled exhaustion or the iterator
\* has been dropped.
DrainFinalized == op = "drain" /\ node_stack = <<>> /\ pc \in {"idle", "drain"}

\* A drain has been dropped.
DrainDropped == op = "drain" /\ pc = "idle"

\* The iterator was dropped right after a call of next that gave an element.
DroppedEarly == DrainDropped /\ returned # <<>>

\* remove or remove_all has returned.
RemovalReturned == pc = "idle" /\ op \in {"remove", "remove_all"}

\* The positions, in the depth-first order of the leaves of tree0, of the
\* leaves the removal that began at tree0 is to remove.
ToRemove ==
    LET flags == MatchFlags(tree0) IN
    IF op = "remove"
    THEN (IF FirstSet(flags) = 0 THEN {} ELSE {FirstSet(flags)})
    ELSE Set(flags)

\* ------------------------------------------------------------------ claims
\* C1: when a drain that has yielded k elements is dropped, the leaves of the
\* tree together with the k yielded elements are, as a multiset, the leaves
\* the tree had when the drain was created: no yielded element is kept and
\* every other element is still there exactly once.
C1_DrainKeepsTheRest ==
    DrainDropped => SameBag(LeavesOf(rtree.root) \o yielded, LeavesOf(tree0))

\* A drain over a tree of height two or more, dropped before exhaustion
\* after it yielded something, with leaves left in the tree.
C1_Witness ==
    /\ DroppedEarly
    /\ Len(yielded) >= 1
    /\ Len(LeavesOf(rtree.root)) >= 2
    /\ rtree.root.children[1].tag = "Parent"

\* C2: when a drain is finalized, by exhaustion or by a drop after any
\* number k of yielded elements, the count is the count recorded at
\* construction minus k, and it is the number of leaves under the installed
\* root.
C2_DrainCount ==
    DrainFinalized =>
        /\ rtree.size = original_size - Len(yielded)
        /\ rtree.size = Len(LeavesOf(rtree.root))

\* A drain pulled to exhaustion that yielded from below the root frame and
\* left leaves behind.
C2_Witness ==
    /\ DrainFinalized
    /\ pc = "drain"
    /\ Len(yielded) >= 1
    /\ rtree.size >= 1
    /\ rtree.root.children[1].tag = "Parent"

\* C6: after a drain is finalized, no interior node of the installed tree
\* other than the root has zero children.
C6_DrainPrunes == DrainFinalized => NoEmptyInterior(rtree.root)

\* A drain dropped while frames were detached, after which an emptied node
\* and its parent, emptied by that, are both gone, and the tree is not
\* empty.
C6_Witness ==
    /\ DroppedEarly
    /\ NumInterior(tree0) >= NumInterior(rtree.root) + 2
    /\ rtree.root.children # <<>>

\* C7: after a drain is finalized, every interior node of the installed tree
\* has a cached envelope equal to the union of the envelopes of its
\* children.
C7_DrainReenvelopes == DrainFinalized => EnvelopesConsistent(rtree.root)

\* A drain finalized after it yielded an element from a frame two levels
\* below the root, which changed the root's envelope.
C7_Witness ==
    /\ DrainFinalized
    /\ Len(yielded) = 1
    /\ rtree.root.children # <<>>
    /\ rtree.root.children[1].tag = "Parent"
    /\ rtree.root.children[1].children[1].tag = "Parent"
    /\ rtree.root.envelope # tree0.envelope

\* C3: every call of remove_all runs to completion: whenever remove_all is
\* running it returns later on.
C3_RemoveAllTerminates ==
    (pc = "remove" /\ ~remove_only_first) ~> (pc = "idle")

\* C4: every call of remove_all returns, and returns exactly the leaves of
\* tree0 the selection function reaches and accepts, each once; those
\* leaves are then gone from the tree, every other leaf is still there, and
\* the number of leaves has dropped by the number of elements returned.
C4_RemoveAllReturnsEveryMatch ==
    (pc = "remove" /\ ~remove_only_first) ~>
        (/\ pc = "idle"
         /\ op = "remove_all"
         /\ returned = Keep(LeavesOf(tree0), Set(MatchFlags(tree0)), 1)
         /\ LeavesOf(rtree.root) = Without(LeavesOf(tree0), Set(MatchFlags(tree0)))
         /\ Len(LeavesOf(rtree.root)) = Len(LeavesOf(tree0)) - Len(returned))

\* What C4 says of the calls of remove_all that do return.
RemoveAllWhenItReturns ==
    (pc = "idle" /\ op = "remove_all") =>
        /\ returned = Keep(LeavesOf(tree0), Set(MatchFlags(tree0)), 1)
        /\ LeavesOf(rtree.root) = Without(LeavesOf(tree0), Set(MatchFlags(tree0)))

\* Every call of remove returns.
RemoveTerminates == (pc = "remove" /\ remove_only_first) ~> (pc = "idle")

\* C5: remove returns the first leaf, in depth-first order, that the
\* selection function reaches and accepts, and removes that one leaf and no
\* other; it returns nothing exactly when there is no such leaf; and a
\* second remove, after a first one returned the only leaf the selection
\* function accepts, returns nothing.
C5_RemoveFirstMatch ==
    (pc = "idle" /\ op = "remove") =>
        LET leaves == LeavesOf(tree0)
            first == FirstSet(MatchFlags(tree0))
        IN /\ first = 0 => returned = <<>> /\ LeavesOf(rtree.root) = leaves
           /\ first > 0 => /\ returned = <<leaves[first]>>
                           /\ LeavesOf(rtree.root) = Without(leaves, {first})
           /\ ( /\ prev.op = "remove"
                /\ prev.gave # <<>>
                /\ Cardinality({k \in 1..Len(LeavesOf(prev.tree0)) :
                        ShouldUnpackLeaf(removal_function, LeavesOf(prev.tree0)[k])}) = 1 )
              => returned = <<>>

\* remove has returned an element that was not the first leaf of the tree,
\* from a tree of height two or more in which several leaves matched.
C5_Witness ==
    /\ pc = "idle"
    /\ op = "remove"
    /\ returned # <<>>
    /\ FirstSet(MatchFlags(tree0)) > 1
    /\ Cardinality(Set(MatchFlags(tree0))) >= 2
    /\ tree0.children[1].tag = "Parent"

\* C8: after remove or remove_all returns, no interior node of the tree
\* other than the root has zero children.
C8_RemovalPrunes == RemovalReturned => NoEmptyInterior(rtree.root)

\* remove_all has returned after it emptied a node whose parent was emptied
\* by that, both are gone, and the tree is not empty.
C8_Witness ==
    /\ pc = "idle"
    /\ op = "remove_all"
    /\ NumInterior(tree0) >= NumInterior(rtree.root) + 2
    /\ rtree.root.children # <<>>

\* C9: after remove or remove_all returns, every interior node's cached
\* envelope is the union of the envelopes of its children, and every
\* interior node that lost no leaf is in the tree as it was.
C9_RemovalReenvelopes ==
    RemovalReturned =>
        /\ EnvelopesConsistent(rtree.root)
        /\ KeptNodes(tree0, 0, ToRemove) \subseteq InteriorNodes(rtree.root)

\* A removal from two levels below the root has returned; it changed the
\* root's envelope and left another interior node untouched.
C9_Witness ==
    /\ RemovalReturned
    /\ returned # <<>>
    /\ rtree.root.children # <<>>
    /\ rtree.root.children[1].tag = "Parent"
    /\ rtree.root.children[1].children[1].tag = "Parent"
    /\ rtree.root.envelope # tree0.envelope
    /\ KeptNodes(tree0, 0, ToRemove) # {}

\* C10: remove on a tree in which the selection function reaches and accepts
\* no leaf returns nothing and leaves the root as it was, at every step of
\* the call and after it.
C10_RemoveNoMatchNoChange ==
    (op = "remove" /\ Set(MatchFlags(tree0)) = {}) =>
        /\ rtree.root = tree0
        /\ pc = "idle" => returned = <<>>

\* remove has returned from a tree that holds a leaf the selection function
\* accepts, under an envelope it rejects.
C10_Witness ==
    /\ pc = "idle"
    /\ op = "remove"
    /\ Set(MatchFlags(tree0)) = {}
    /\ \E k \in 1..Len(LeavesOf(tree0)) :
          ShouldUnpackLeaf(removal_function, LeavesOf(tree0)[k])
    /\ tree0.children[1].tag = "Parent"

\* A drain has been pulled until next gave None.
DrainExhausted == op = "drain" /\ pc = "drain" /\ node_stack = <<>>

\* What C11 says of the drain alone: a drain pulled to exhaustion has
\* yielded, in some order and each once, the leaves of tree0 the selection
\* function reaches and accepts, and the installed tree holds the others.
DrainSelectsAsFullMode ==
    DrainExhausted =>
        LET leaves == LeavesOf(tree0)
            at == Set(MatchFlags(tree0))
        IN /\ SameBag(yielded, Keep(leaves, at, 1))
           /\ SameBag(LeavesOf(rtree.root), Without(leaves, at))

\* What C11 says of the calls of remove_all that do return: the result and
\* the leaves left are, as multisets, what the drain yielded and left.
DrainAsRemoveAllWhenItReturns ==
    (pc = "idle" /\ op = "remove_all" /\ prev.op = "drain") =>
        /\ SameBag(returned, prev.gave)
        /\ SameBag(LeavesOf(rtree.root), LeavesOf(prev.root))

\* C11: a drain pulled to exhaustion and remove_all, on the same tree with
\* the same selection function, select the same leaves: whenever the drain is
\* exhausted, remove_all on the tree the drain began with comes to return
\* the multiset of elements the drain yielded and to leave behind the
\* multiset of leaves the drain installed.
C11_DrainAsRemoveAll ==
    (DrainExhausted /\ ops < MaxOps) ~>
        (/\ pc = "idle"
         /\ op = "remove_all"
         /\ SameBag(returned, prev.gave)
         /\ SameBag(LeavesOf(rtree.root), LeavesOf(prev.root)))

\* C12: when remove_all is called again, with the same selection function,
\* after a call of remove_all that returned, the second call never changes
\* the tree, and when it returns its result is empty.
C12_RemoveAllTwice ==
    (op = "remove_all" /\ prev.op = "remove_all") =>
        /\ rtree.root = tree0
        /\ rtree.root = prev.root
        /\ pc = "idle" => returned = <<>>

\* A second remove_all has returned, after a first one that removed
\* something from below an interior child and left leaves behind.
C12_Witness ==
    /\ pc = "idle"
    /\ op = "remove_all"
    /\ prev.op = "remove_all"
    /\ prev.gave # <<>>
    /\ prev.tree0.children[1].tag = "Parent"
    /\ Len(LeavesOf(rtree.root)) >= 1

\* The selection function accepts every envelope that holds a leaf it
\* accepts, as a test of intersection with a region that holds the accepted
\* leaves does, and as SelectAllFunc does.
AcceptsAbove ==
    \/ removal_function.all
    \/ \A t \in removal_function.leaves :
          Intersects(PointEnvelope(t), removal_function.region)

\* The elements the previous operation was to select: the leaves of the
\* tree it began with that the selection function reached and accepted.
PrevMatching == Keep(LeavesOf(prev.tree0), Set(MatchFlags(prev.tree0)), 1)

\* A drain that follows a drain has been pulled to exhaustion.
SecondDrainExhausted == DrainExhausted /\ prev.op = "drain"

\* C13 as stated: the second drain yields the matching elements the first
\* did not yield, m - k of them, whatever the selection function.
C13_SecondDrainYieldsTheRest ==
    SecondDrainExhausted => SameBag(prev.gave \o yielded, PrevMatching)

\* C13, amended: when the selection function accepts every envelope that
\* holds a leaf it accepts, a second drain pulled to exhaustion yields the
\* matching elements the first drain did not yield; and for every selection
\* function, after a first drain that yielded all the matching elements the
\* second yields nothing and leaves the count as it found it.
C13_SecondDrainAmended ==
    SecondDrainExhausted =>
        /\ AcceptsAbove => SameBag(prev.gave \o yielded, PrevMatching)
        /\ Len(prev.gave) = Len(PrevMatching) =>
              yielded = <<>> /\ rtree.size = original_size

\* A first drain dropped after a proper prefix of the matching elements, a
\* second one that yielded the rest and left other leaves in the tree, with
\* a selection function that tests a region.
C13_Witness ==
    /\ SecondDrainExhausted
    /\ AcceptsAbove
    /\ ~removal_function.all
    /\ Len(prev.gave) >= 1
    /\ Len(yielded) >= 1
    /\ Len(LeavesOf(rtree.root)) >= 1

\* C14: in the life of one drain, once the stack is empty (next has
\* signalled exhaustion, or the iterator has been dropped) nothing changes
\* any more: a further call of next returns None, a drop leaves the root
\* and the count alone, nothing more is yielded; and the root and the count
\* are written only by the step that empties the stack, which writes the
\* count recorded at construction minus the number of yielded elements.
C14_WrittenBackOnce ==
    [][(op = "drain" /\ ops' = ops) =>
          /\ node_stack = <<>> =>
                /\ rtree' = rtree
                /\ node_stack' = <<>>
                /\ yielded' = yielded
                /\ pc' = "drain" => returned' = <<>>
          /\ (node_stack # <<>> /\ node_stack' # <<>>) => rtree' = rtree
          /\ (node_stack # <<>> /\ node_stack' = <<>>) =>
                /\ rtree'.size = original_size - Len(yielded)
                /\ SameBag(LeavesOf(rtree'.root) \o yielded, LeavesOf(tree0))
      ]_vars

\* A drain dropped after the call of next that signalled exhaustion, having
\* yielded something and left leaves behind.
C14_Witness ==
    /\ DrainDropped
    /\ returned = <<>>
    /\ yielded # <<>>
    /\ rtree.size = original_size - Len(yielded)
    /\ rtree.size >= 1

\* A drain has been created and not finalized: frames are still on the stack.
DrainLive == op = "drain" /\ node_stack # <<>>

\* C15: from the construction of a drain until the step that finalizes it,
\* the tree holds a root without children, with the envelope of nothing,
\* and a count of 0.
C15_Placeholder ==
    DrainLive =>
        /\ rtree.root.tag = "Parent"
        /\ rtree.root.children = <<>>
        /\ rtree.root.envelope = EmptyEnvelope
        /\ rtree.size = 0

\* A drain of a tree with leaves, stopped between two calls of next after it
\* yielded from below the root frame: the nodes are on the stack, the tree
\* holds the placeholder.
C15_Witness ==
    /\ DrainLive
    /\ pc = "drain"
    /\ Len(node_stack) >= 2
    /\ yielded # <<>>
    /\ original_size >= 2
    /\ rtree = NewRTree

RECURSIVE Occurs(_, _), OccursSeq(_, _, _)
\* How many times a subtree occurs under (and including) a node.
Occurs(n, sub) ==
    IF n.tag = "Leaf" THEN 0
    ELSE (IF n = sub THEN 1 ELSE 0) + OccursSeq(n.children, 1, sub)
OccursSeq(children, k, sub) ==
    IF k > Len(children) THEN 0
    ELSE Occurs(children[k], sub) + OccursSeq(children, k + 1, sub)

\* The interior nodes of a tree whose cached envelope the selection function
\* rejects.
Rejected(tree) ==
    {n \in InteriorNodes(tree) : ~ShouldUnpackParent(removal_function, n.envelope)}

\* What the operation that has ended gave: the elements the drain yielded,
\* the result of remove or remove_all.
Gave == IF op = "drain" THEN yielded ELSE returned

\* An operation has ended: remove or remove_all has returned, a drain has
\* been finalized.
OperationEnded ==
    /\ op \in {"remove", "remove_all", "drain"}
    /\ pc \in {"idle", "drain"}
    /\ node_stack = <<>>
    /\ call_stack = <<>>

\* C16: after remove, remove_all or a drain, every subtree of the original
\* tree whose root envelope the selection function rejects is still in the
\* tree, with the same children in the same order and the same cached
\* envelopes all the way down, as many times as it was there; and what the
\* operation gave holds no more copies of an element than there are leaves
\* with that element that the selection function reaches and accepts.
C16_RejectedSubtreeUntouched ==
    OperationEnded =>
        /\ \A n \in Rejected(tree0) : Occurs(rtree.root, n) >= Occurs(tree0, n)
        /\ \A t \in Elems :
              Count(Gave, t) <= Count(Keep(LeavesOf(tree0), Set(MatchFlags(tree0)), 1), t)

\* A drain has ended that yielded something and went past a rejected node
\* below the root that holds a leaf the selection function accepts.
C16_Witness ==
    /\ OperationEnded
    /\ op = "drain"
    /\ yielded # <<>>
    /\ \E n \in Rejected(tree0) :
          /\ n # tree0
          /\ \E k \in 1..Len(LeavesOf(n)) :
                ShouldUnpackLeaf(removal_function, LeavesOf(n)[k])
          /\ Occurs(rtree.root, n) >= 1

\* A child of a frame has been dealt with: a leaf the selection function
\* rejects, or an interior node in which it reaches no leaf it accepts.
Examined(child) ==
    IF child.tag = "Leaf" THEN ~ShouldUnpackLeaf(removal_function, child.t)
    ELSE Set(MatchFlags(child)) = {}

\* A child of a frame is as it was in the original tree.
Untouched(child) == child.tag = "Leaf" \/ Occurs(tree0, child) >= 1

\* The scan index of a frame divides its children: those below it have been
\* dealt with, those at or above it are as they were.
FrameScanned(f) ==
    /\ f.idx <= Len(f.node.children)
    /\ \A k \in 1..Len(f.node.children) :
          IF k <= f.idx THEN Examined(f.node.children[k])
          ELSE Untouched(f.node.children[k])

RECURSIVE Work(_), WorkSeq(_, _)
\* The steps a subtree not yet examined costs: a test for a leaf; a push, a
\* pop and the steps of its children for an interior node.
Work(n) == IF n.tag = "Leaf" THEN 1 ELSE 2 + WorkSeq(n.children, 1)
WorkSeq(children, k) ==
    IF k > Len(children) THEN 0
    ELSE Work(children[k]) + WorkSeq(children, k + 1)

RECURSIVE Remaining(_)
\* The steps left for the frames of a stack: for each frame its pop and the
\* steps of its children at or above the scan index.
Remaining(stack) ==
    IF stack = <<>> THEN 0
    ELSE 1 + WorkSeq(Top(stack).node.children, Top(stack).idx + 1)
           + Remaining(Rest(stack))

\* Every frame of the stack is divided by its scan index.
StackScanned == \A j \in 1..Len(node_stack) : FrameScanned(node_stack[j])

\* A step of a drain that changes the stack uses up remaining steps: what
\* it examines was at or above a scan index and is not examined again.
StackAdvances ==
    node_stack' # node_stack => Remaining(node_stack') < Remaining(node_stack)

\* C17 as stated: at every point of a drain, the destructor's loop
\* included, every frame is divided by its scan index, and every step that
\* changes the stack moves what it examined out of the children still to be
\* scanned.
C17_ScanIndex ==
    /\ [](DrainLive => StackScanned)
    /\ [][(op = "drain" /\ ops' = ops) => StackAdvances]_vars

\* C17, amended: the same at every point of a drain before the iterator is
\* dropped.  (In the destructor pop_node pushes the node back at the end
\* of its parent's children and leaves the scan index where it is.)
C17_ScanIndexAmended ==
    /\ [](DrainLive /\ pc \in {"drain", "next"} => StackScanned)
    /\ [][(op = "drain" /\ ops' = ops /\ pc \in {"drain", "next"}) =>
             StackAdvances]_vars

\* A frame whose first child is an interior node that lost a leaf and was
\* put back, with the scan index past it and a child still to be scanned.
C17_Witness ==
    /\ DrainLive
    /\ pc \in {"drain", "next"}
    /\ \E j \in 1..Len(node_stack) :
          LET f == node_stack[j] IN
          /\ f.idx >= 1
          /\ f.idx < Len(f.node.children)
          /\ f.node.children[1].tag = "Parent"
          /\ Occurs(tree0, f.node.children[1]) = 0

\* C18: when remove_all returns, its result lists the removed elements in
\* the depth-first, children-in-order sequence of their leaves in the
\* original tree.
C18_RemoveAllDepthFirst ==
    (pc = "idle" /\ op = "remove_all") =>
        returned = Keep(LeavesOf(tree0), Set(MatchFlags(tree0)), 1)

\* remove_all has returned two different elements, the first from below the
\* root's first child, the second from below a later child.
C18_Witness ==
    /\ pc = "idle"
    /\ op = "remove_all"
    /\ Len(returned) >= 2
    /\ returned[1] # returned[2]
    /\ Len(tree0.children) >= 2
    /\ tree0.children[1].tag = "Parent"
    /\ LeavesOf(tree0.children[1]) = <<returned[1]>>

\* C19: every call of next returns; a drain whose consumer keeps pulling
\* comes to signal exhaustion unless it is dropped first; and a drain never
\* yields more elements than the tree had leaves.
C19_DrainTerminates ==
    /\ (pc = "next") ~> (pc = "drain")
    /\ DrainLive ~> (DrainExhausted \/ pc \in {"drop", "idle"})
    /\ [](op = "drain" => Len(yielded) <= Len(LeavesOf(tree0)))

\* A drain of a tree with interior nodes below the root has signalled
\* exhaustion after it yielded every one of the tree's leaves.
C19_Witness ==
    /\ DrainExhausted
    /\ Len(LeavesOf(tree0)) >= 2
    /\ Len(yielded) = Len(LeavesOf(tree0))
    /\ tree0.children[1].tag = "Parent"

RECURSIVE SumRemoved(_)
\* The removed counts of the frames of a stack, added up.
SumRemoved(stack) ==
    IF stack = <<>> THEN 0 ELSE Top(stack).removed + SumRemoved(Rest(stack))

\* What Vec::swap_remove(i) returns: the element that was at i.
SwapRemoved(s, i) == VecSwap(s, i, Len(s) - 1)[Len(s)]

\* What Vec::remove(i) returns: the element the rest no longer holds.
Removed(s, i) == s[i + 1]

\* The drain is nowhere near a panic: the destructor's loop runs on a
\* non-empty stack; every frame's scan index is at most the number of its
\* children, so that after the push in pop_node it is a valid index for the
\* swap; the child next detaches has the tag it was matched with; the
\* removed counts do not exceed the count recorded at construction.
DrainSafe ==
    op = "drain" =>
        /\ pc = "drop" => node_stack # <<>>
        /\ \A j \in 1..Len(node_stack) :
              /\ node_stack[j].idx >= 0
              /\ node_stack[j].idx <= Len(node_stack[j].node.children)
              /\ node_stack[j].removed >= 0
        /\ (node_stack # <<>> /\ pc \in {"drain", "next"}
                /\ StopsOnChild(Top(node_stack))) =>
              LET f == Top(node_stack)
                  k == ScanStop(f)
              IN /\ k < Len(f.node.children)
                 /\ SwapRemoved(f.node.children, k) = f.node.children[k + 1]
                 /\ SwapRemoved(f.node.children, k).tag \in {"Parent", "Leaf"}
        /\ SumRemoved(node_stack) <= original_size
        /\ rtree.size >= 0

\* remove_recursive is nowhere near a panic: every activation is on an
\* interior node; a caller's index is a valid index of its node's children
\* and the child there is the interior node its callee works on; the
\* child the loop looks at next is inside the children.
RemovalSafe ==
    pc = "remove" =>
        \A j \in 1..Len(call_stack) :
            LET f == call_stack[j]
                node == NodeAt(rtree.root, f.path)
            IN /\ node.tag = "Parent"
               /\ f.i >= 0
               /\ j < Len(call_stack) =>
                     /\ f.i < Len(node.children)
                     /\ Removed(node.children, f.i).tag = "Parent"
                     /\ call_stack[j + 1].path = Append(f.path, f.i)
               /\ (j = Len(call_stack) /\ ~LoopDone(rtree.root, f)) =>
                     /\ f.i < Len(node.children)
                     /\ Removed(node.children, f.i).tag \in {"Parent", "Leaf"}

\* C20: no state of a drain (construction, calls of next, drop) and no
\* state of remove or remove_all is one from which the code panics:
\* pop_node finds a frame, detached children have the tag they were matched
\* with, the swap in pop_node has a valid index, indices into children are
\* in range, and the count written back is not negative.
C20_NoViolation == DrainSafe /\ RemovalSafe /\ rtree.size >= 0

\* Between two calls of next, below the root frame, everything the tree
\* held has been yielded: the root frame's scan index equals the number of
\* its children (the swap in pop_node would be a no-op) and the removed
\* counts add up to the count recorded at construction.
C20_Witness ==
    /\ DrainLive
    /\ pc = "drain"
    /\ Len(node_stack) >= 2
    /\ node_stack[1].idx = Len(node_stack[1].node.children)
    /\ original_size >= 2
    /\ SumRemoved(node_stack) = original_size
====
